---- MODULE Spec2Model ----
(***************************************************************************)
(* Route planning engine of src/app/pathplanning/pathplanning.py:          *)
(* class Pathplanner (constructor with its pickle cache, get_path and the  *)
(* helpers get_path is made of).                                           *)
(*                                                                         *)
(* Python lists are sequences (0-based indices are shifted by one where    *)
(* they are read), dicts are functions, and a raised exception is the name *)
(* of its class in a field "raised" ("none" when nothing was raised).      *)
(***************************************************************************)
EXTENDS Integers, Sequences, FiniteSets, TLC

(* ------------------------------ bounds -------------------------------- *)

\* shape of the map image (np.shape(self.map)): rows and columns
GridRows == 2
GridCols == 3
\* largest number of registered stops (len(locations))
MaxStops == 3
\* number of constructor calls in one behaviour
MaxCtor == 2

(* ------------------------------ helpers ------------------------------- *)

Range(s) == {s[i] : i \in DOMAIN s}

In(x, s) == x \in Range(s)

\* Python s[i] for a 0-based, non-negative i
At0(s, i) == s[i + 1]

\* list(s).index(x): 0-based position of the first occurrence
IndexOf(s, x) == (CHOOSE i \in DOMAIN s : s[i] = x /\ \A j \in 1..(i - 1) : s[j] # x) - 1

Last(s) == s[Len(s)]

Reverse(s) == [i \in 1..Len(s) |-> s[Len(s) + 1 - i]]

Max(S) == CHOOSE m \in S : \A x \in S : x <= m

Abs(x) == IF x < 0 THEN -x ELSE x

Sign(x) == IF x > 0 THEN 1 ELSE IF x < 0 THEN -1 ELSE 0

EmptyDict == <<>>

\* d[key] = value on a dict
DictSet(d, key, value) ==
    [k \in (DOMAIN d) \cup {key} |-> IF k = key THEN value ELSE d[k]]

\* the value of an attribute that was never assigned (reading it raises
\* AttributeError); no node index is negative
UNSET == -1

NoPlanner == [none |-> TRUE]

(* --------------------- the grid and the path search ------------------- *)

\* raise_if_out_of_bounds: the condition under which it raises ValueError
OutOfBounds(loc) ==
    loc[1] >= GridRows \/ loc[2] >= GridCols \/ loc[1] < 0 \/ loc[2] < 0

StepToward(cur, end) == <<cur[1] + Sign(end[1] - cur[1]), cur[2] + Sign(end[2] - cur[2])>>

RECURSIVE PathFrom(_, _)
PathFrom(cur, end) ==
    IF cur = end THEN <<cur>> ELSE <<cur>> \o PathFrom(StepToward(cur, end), end)

\* skimage.graph.route_through_array(self.map, start, end, fully_connected=True)
\* on a map of uniform cost: an 8-connected shortest path that holds both its
\* endpoints, and its cost (0 exactly when start = end).
route_through_array(start, end) ==
    LET path == PathFrom(start, end)
    IN  [path |-> path, cost |-> Len(path) - 1]

(* --------------------------- stop registries -------------------------- *)

\* The stop lists a planner is constructed with: the prefixes, of length
\* 0..MaxStops, of two lists of distinct stops on the map, and three lists that
\* break the rules: a single stop outside the map, a second stop outside the
\* map, and two stops at the same place.
BaseGood == << <<0, 0>>, <<1, 2>>, <<0, 2>>, <<1, 0>>, <<0, 1>> >>
BaseAlt  == << <<1, 1>>, <<0, 0>>, <<1, 2>>, <<0, 2>>, <<1, 0>> >>

OutOnly   == << <<0, 9>> >>
OutSecond == << <<0, 0>>, <<-1, 1>> >>
SamePlace == << <<0, 1>>, <<0, 1>> >>

Registries ==
    {SubSeq(b, 1, n) : b \in {BaseGood, BaseAlt}, n \in 0..MaxStops}
        \cup {OutOnly, OutSecond, SamePlace}

\* str(locations).encode('utf-8'): the text of the list, here a number that
\* differs for different lists of coordinates in -1..9 (order and values)
RECURSIVE str_encode(_)
str_encode(locations) ==
    IF locations = <<>> THEN 1
    ELSE LET loc == Last(locations)
         IN  str_encode(SubSeq(locations, 1, Len(locations) - 1)) * 122
                 + ((loc[1] + 1) * 11 + (loc[2] + 1) + 1)

\* hashlib.sha1(...).hexdigest(): a digest taken as free of collisions
get_hash_of_locations(locations) == str_encode(locations)

(* ---------------------------- the cache file -------------------------- *)

\* /tmp/path_cache.pickle: missing, of length 0, cut short, not a pickle at
\* all, or the pickle of a dict {hash: {product_distances, product_paths}}
FileKinds == {"missing", "empty", "truncated", "corrupt", "pickle"}

File(kind, data) == [kind |-> kind, data |-> data]

\* os.path.exists(self.cache_path)
path_exists(f) == f.kind # "missing"

\* open(self.cache_path, 'rb') followed by pickle.load(f): FileNotFoundError for
\* a missing file, EOFError for a file of length 0 ("Ran out of input"), and
\* pickle.UnpicklingError for one cut short in the middle of an item or holding
\* anything but a pickle
pickle_load(f) ==
    CASE f.kind = "missing"   -> [raised |-> "FileNotFoundError", data |-> EmptyDict]
      [] f.kind = "empty"     -> [raised |-> "EOFError", data |-> EmptyDict]
      [] f.kind = "truncated" -> [raised |-> "UnpicklingError", data |-> EmptyDict]
      [] f.kind = "corrupt"   -> [raised |-> "UnpicklingError", data |-> EmptyDict]
      [] OTHER                -> [raised |-> "none", data |-> f.data]

\* open(self.cache_path, 'wb') followed by pickle.dump(data, f): the file is
\* replaced by the pickle of data, which pickle.load gives back unchanged (a
\* dict of int, float, tuple, list and dict)
pickle_dump(data) == File("pickle", data)

(* ----------------------------- constructor ---------------------------- *)

\* a _load_distance_and_paths that never finds its key in the dict
load_never_finds_key(f, locations_hash) ==
    [raised |-> IF path_exists(f) /\ pickle_load(f).raised # "EOFError"
                THEN pickle_load(f).raised ELSE "none",
     ok |-> FALSE, inter_product_distances |-> <<>>, inter_product_paths |-> EmptyDict]

\* _load_distance_and_paths: `ok` is its return value, `raised` the exception
\* that leaves it (only EOFError is caught), and the two tables are what it
\* assigns to self on a hit
load_distance_and_paths(f, locations_hash) ==
    LET miss == [raised |-> "none", ok |-> FALSE,
                 inter_product_distances |-> <<>>, inter_product_paths |-> EmptyDict]
        got  == pickle_load(f)
    IN  IF ~path_exists(f) THEN miss
        ELSE IF got.raised = "EOFError" THEN miss
        ELSE IF got.raised # "none" THEN [miss EXCEPT !.raised = got.raised]
        ELSE IF locations_hash \notin DOMAIN got.data THEN miss
        ELSE [raised |-> "none", ok |-> TRUE,
              inter_product_distances |-> got.data[locations_hash].product_distances,
              inter_product_paths |-> got.data[locations_hash].product_paths]

\* a _store_distance_and_paths that writes a dict holding its own entry only
store_only_own_entry(f, locations_hash, distances, paths) ==
    [raised |-> IF pickle_load(f).raised \in {"none", "FileNotFoundError", "EOFError"}
                THEN "none" ELSE pickle_load(f).raised,
     file |-> IF pickle_load(f).raised \in {"none", "FileNotFoundError", "EOFError"}
              THEN pickle_dump(DictSet(EmptyDict, locations_hash,
                       [product_distances |-> distances, product_paths |-> paths]))
              ELSE f]

\* _store_distance_and_paths: the file it leaves, and the exception that leaves
\* it (FileNotFoundError and EOFError are caught and give an empty dict)
store_distance_and_paths(f, locations_hash, distances, paths) ==
    LET got   == pickle_load(f)
        data  == IF got.raised \in {"FileNotFoundError", "EOFError"}
                 THEN EmptyDict ELSE got.data
        entry == [product_distances |-> distances, product_paths |-> paths]
    IN  IF got.raised \notin {"none", "FileNotFoundError", "EOFError"}
        THEN [raised |-> got.raised, file |-> f]
        ELSE [raised |-> "none",
              file |-> pickle_dump(DictSet(data, locations_hash, entry))]

\* The (i_start, i_end) the two loops of _calculate_inter_product_routes go
\* through, in their order: i_start over product_locations[:-1] and i_end over
\* product_locations[i_start:], both 1-based
RECURSIVE InnerPairs(_, _, _)
InnerPairs(i_start, i_end, n) ==
    IF i_end > n THEN <<>>
    ELSE << <<i_start, i_end>> >> \o InnerPairs(i_start, i_end + 1, n)

RECURSIVE OuterPairs(_, _)
OuterPairs(i_start, n) ==
    IF i_start > n - 1 THEN <<>>
    ELSE InnerPairs(i_start, i_start + 1, n) \o OuterPairs(i_start + 1, n)

\* one pass of the inner loop body for the pair pr: the exception it raises
\* (raise_if_out_of_bounds on loc_start and on loc_end, then the assert on the
\* cost), and whether the path search was run
PairStep(product_locations, pr) ==
    LET loc_start == product_locations[pr[1]]
        loc_end   == product_locations[pr[2]]
    IN  IF OutOfBounds(loc_start) \/ OutOfBounds(loc_end)
        THEN [raised |-> "ValueError", searched |-> FALSE]
        ELSE IF ~(route_through_array(loc_start, loc_end).cost > 0)
        THEN [raised |-> "AssertionError", searched |-> TRUE]
        ELSE [raised |-> "none", searched |-> TRUE]

\* a _calculate_inter_product_routes without the shift to 1-based indices
calculate_routes_zero_based(product_locations) ==
    IF \E k \in DOMAIN OuterPairs(1, Len(product_locations)) :
           PairStep(product_locations, OuterPairs(1, Len(product_locations))[k]).raised # "none"
    THEN [raised |-> "ValueError",
          inter_product_distances |-> <<>>, inter_product_paths |-> EmptyDict,
          searches |-> <<>>]
    ELSE [raised |-> "none",
          inter_product_distances |->
              [k \in DOMAIN OuterPairs(1, Len(product_locations)) |->
                  <<OuterPairs(1, Len(product_locations))[k][1] - 1,
                    OuterPairs(1, Len(product_locations))[k][2] - 1,
                    route_through_array(
                        product_locations[OuterPairs(1, Len(product_locations))[k][1]],
                        product_locations[OuterPairs(1, Len(product_locations))[k][2]]).cost>>],
          inter_product_paths |->
              [i \in 0..(Len(product_locations) - 2) |->
                  [j \in (i + 1)..(Len(product_locations) - 1) |->
                      route_through_array(product_locations[i + 1],
                                          product_locations[j + 1]).path]],
          searches |-> OuterPairs(1, Len(product_locations))]

\* _calculate_inter_product_routes: the edge list and the segment table, or the
\* first exception of the loops; `searches` are the pairs the path search was
\* run for, in order
calculate_inter_product_routes(product_locations) ==
    LET n      == Len(product_locations)
        pairs  == OuterPairs(1, n)
        bad    == {k \in DOMAIN pairs : PairStep(product_locations, pairs[k]).raised # "none"}
        first  == IF bad = {} THEN Len(pairs) + 1
                  ELSE CHOOSE k \in bad : \A j \in bad : k <= j
        ran    == IF bad = {} THEN Len(pairs)
                  ELSE IF PairStep(product_locations, pairs[first]).searched
                       THEN first ELSE first - 1
        seg(i, j) == route_through_array(product_locations[i], product_locations[j])
    IN  IF bad # {}
        THEN [raised |-> PairStep(product_locations, pairs[first]).raised,
              inter_product_distances |-> <<>>, inter_product_paths |-> EmptyDict,
              searches |-> SubSeq(pairs, 1, ran)]
        ELSE [raised |-> "none",
              inter_product_distances |->
                  [k \in DOMAIN pairs |-> <<pairs[k][1], pairs[k][2], seg(pairs[k][1], pairs[k][2]).cost>>],
              inter_product_paths |->
                  [i \in 1..(n - 1) |-> [j \in (i + 1)..n |-> seg(i, j).path]],
              searches |-> pairs]

\* Pathplanner.__init__(map_image_path, locations) run on the cache file f: the
\* exception that leaves it, the object it builds (none when it raises), the
\* file it leaves, whether the tables came from the cache, and the pairs the
\* path search ran for.  It assigns cache_path, map, product_locations,
\* locations_hash, num_products and the two tables; user_position_id is
\* assigned nowhere in the class.
Pathplanner(f, locations) ==
    LET locations_hash == get_hash_of_locations(locations)
        self0  == [product_locations |-> locations,
                   locations_hash |-> locations_hash,
                   num_products |-> Len(locations),
                   inter_product_distances |-> <<>>,
                   inter_product_paths |-> EmptyDict,
                   user_position_id |-> UNSET]
        loaded == load_distance_and_paths(f, locations_hash)
        calc   == calculate_inter_product_routes(locations)
        stored == store_distance_and_paths(f, locations_hash,
                      calc.inter_product_distances, calc.inter_product_paths)
        out(raised, self, file, hit, calculated, searches) ==
            [raised |-> raised, self |-> self, file |-> file, locations_hash |-> locations_hash,
             hit |-> hit, calculated |-> calculated, searches |-> searches]
    IN  IF loaded.raised # "none"
        THEN out(loaded.raised, NoPlanner, f, FALSE, FALSE, <<>>)
        ELSE IF loaded.ok
        THEN out("none",
                 [self0 EXCEPT !.inter_product_distances = loaded.inter_product_distances,
                               !.inter_product_paths = loaded.inter_product_paths],
                 f, TRUE, FALSE, <<>>)
        ELSE IF calc.raised # "none"
        THEN out(calc.raised, NoPlanner, f, FALSE, TRUE, calc.searches)
        ELSE IF stored.raised # "none"
        THEN out(stored.raised, NoPlanner, f, FALSE, TRUE, calc.searches)
        ELSE out("none",
                 [self0 EXCEPT !.inter_product_distances = calc.inter_product_distances,
                               !.inter_product_paths = calc.inter_product_paths],
                 stored.file, FALSE, TRUE, calc.searches)

(* ------------------------- helpers of get_path ------------------------ *)

\* dict lookup paths[a][b] succeeds (raises no KeyError)
HasKey(paths, a, b) == a \in DOMAIN paths /\ b \in DOMAIN paths[a]

\* _calculate_user_product_routes: copies of the two tables with the edges and
\* segments from user_loc to every registered stop added under
\* self.user_position_id; the path search raises ValueError for an endpoint
\* outside the map
calculate_user_product_routes(self, user_loc) ==
    LET n    == Len(self.product_locations)
        seg(prod_id) == route_through_array(user_loc, self.product_locations[prod_id])
        out  == {prod_id \in 1..n : OutOfBounds(self.product_locations[prod_id])}
    IN  IF n > 0 /\ (OutOfBounds(user_loc) \/ out # {})
        THEN [raised |-> "ValueError", dists |-> <<>>, paths |-> EmptyDict,
              searches |-> IF OutOfBounds(user_loc) THEN 1
                           ELSE CHOOSE k \in out : \A j \in out : k <= j]
        ELSE [raised |-> "none",
              dists |-> self.inter_product_distances \o
                  [prod_id \in 1..n |-> <<self.user_position_id, prod_id, seg(prod_id).cost>>],
              paths |-> DictSet(self.inter_product_paths, self.user_position_id,
                                [prod_id \in 1..n |-> seg(prod_id).path]),
              searches |-> n]

\* _get_indices_in_dist
get_indices_in_dist(dists) ==
    {dists[k][1] : k \in DOMAIN dists} \cup {dists[k][2] : k \in DOMAIN dists}

\* _get_max_index_value_in_dists (np.max of an empty list raises ValueError:
\* callers below test for the empty list first)
get_max_index_value_in_dists(dists) == Max(get_indices_in_dist(dists))

\* _filter_dists: the edges with both ends selected, renumbered by position in
\* selected_product_ids (0-based), in the order of dist_list
RECURSIVE filter_dists(_, _)
filter_dists(selected_product_ids, dist_list) ==
    IF dist_list = <<>> THEN <<>>
    ELSE LET d == Head(dist_list)
             rest == filter_dists(selected_product_ids, Tail(dist_list))
         IN  IF In(d[1], selected_product_ids) /\ In(d[2], selected_product_ids)
             THEN << <<IndexOf(selected_product_ids, d[1]),
                       IndexOf(selected_product_ids, d[2]), d[3]>> >> \o rest
             ELSE rest

\* _insert_dummy_node: asserts end_id is a node of dists, then appends the two
\* edges of cost 1 of the dummy node, numbered one above the largest node
insert_dummy_node(self, dists, end_id) ==
    IF end_id \notin get_indices_in_dist(dists)
    THEN [raised |-> "AssertionError", dists |-> dists, dummy_id |-> -1]
    ELSE LET dummy_id == get_max_index_value_in_dists(dists) + 1
         IN  [raised |-> "none", dummy_id |-> dummy_id,
              dists |-> dists \o << <<self.user_position_id, dummy_id, 1>>,
                                    <<dummy_id, end_id, 1>> >>]

\* dist_list.sort(key=lambda x: x[0]): a stable sort on the first node
RECURSIVE SortFrom(_, _, _)
SortFrom(dist_list, k, top) ==
    IF k > top THEN <<>>
    ELSE SelectSeq(dist_list, LAMBDA d : d[1] = k) \o SortFrom(dist_list, k + 1, top)

\* _do_tsp up to the call of the optimizer: the sorted edge list and the
\* number of nodes given to mlrose.TSPOpt
do_tsp_problem(dist_list) ==
    LET top == get_max_index_value_in_dists(dist_list)
    IN  [dist_list |-> SortFrom(dist_list, 0, top), length |-> top + 1]

\* the answers of mlrose.genetic_alg for a problem of `length` nodes: a
\* permutation of 0..length-1 (any one: the search is random and approximate),
\* or an exception, which _do_tsp raises again
Tours(length) ==
    {t \in [1..length -> 0..(length - 1)] : \A i, j \in 1..length : i # j => t[i] # t[j]}

TspFailed == <<-1>>

TspAnswers(length) == Tours(length) \cup {TspFailed}

\* route.argmax(): the 1-based place of the first largest element
ArgMax(route) ==
    CHOOSE i \in DOMAIN route :
        /\ \A j \in DOMAIN route : route[j] <= route[i]
        /\ \A j \in 1..(i - 1) : route[j] < route[i]

\* _map_to_selected_product_id_indices: asserts the first selected id is the
\* user position, overwrites the largest element of the tour with -1, and maps
\* the others to selected_product_ids[route_point]
map_to_selected_product_id_indices(self, selected_product_ids, route) ==
    LET at      == ArgMax(route)
        marked  == [route EXCEPT ![at] = -1]
        kept    == SelectSeq(marked, LAMBDA route_point : route_point # -1)
    IN  IF selected_product_ids[1] # self.user_position_id
        THEN [raised |-> "AssertionError", route |-> <<>>, stripped |-> -1]
        ELSE IF \E k \in DOMAIN kept : kept[k] >= Len(selected_product_ids)
        THEN [raised |-> "IndexError", route |-> <<>>, stripped |-> route[at]]
        ELSE [raised |-> "none", stripped |-> route[at],
              route |-> [k \in DOMAIN kept |-> At0(selected_product_ids, kept[k])]]

\* np.roll(route, -k): the list turned left by k places
Roll(route, k) ==
    [i \in 1..Len(route) |-> route[((i - 1 + k) % Len(route)) + 1]]

\* a _roll_route that reverses without turning the route one more place first
roll_route_flip_only(start_id, end_id, route) ==
    IF ~In(start_id, route) THEN [raised |-> "ValueError", route |-> <<>>]
    ELSE IF Len(route) < 2 THEN [raised |-> "IndexError", route |-> <<>>]
    ELSE IF Roll(route, IndexOf(route, start_id))[2] = end_id
    THEN [raised |-> "none", route |-> Reverse(Roll(route, IndexOf(route, start_id)))]
    ELSE [raised |-> "none", route |-> Roll(route, IndexOf(route, start_id))]

\* _roll_route: the route turned so that start_id is first and, when end_id
\* then is second, turned once more and reversed
roll_route(start_id, end_id, route) ==
    IF ~In(start_id, route) THEN [raised |-> "ValueError", route |-> <<>>]
    ELSE LET rolled == Roll(route, IndexOf(route, start_id))
         IN  IF Len(rolled) < 2 THEN [raised |-> "IndexError", route |-> <<>>]
             ELSE IF rolled[2] = end_id
             THEN [raised |-> "none", route |-> Reverse(Roll(rolled, 1))]
             ELSE [raised |-> "none", route |-> rolled]

\* a lookup that forgets to reverse a segment stored in the other direction
path_part_not_reversed(paths, start, end) ==
    IF HasKey(paths, start, end) THEN [raised |-> "none", path |-> paths[start][end]]
    ELSE IF HasKey(paths, end, start)
    THEN [raised |-> "none", path |-> paths[end][start]]
    ELSE [raised |-> "KeyError", path |-> <<>>]

\* the path_part of one pass of the loop of _route_to_path: paths[start][end],
\* else paths[end][start] reversed, else KeyError
path_part(paths, start, end) ==
    IF HasKey(paths, start, end) THEN [raised |-> "none", path |-> paths[start][end]]
    ELSE IF HasKey(paths, end, start)
    THEN [raised |-> "none", path |-> Reverse(paths[end][start])]
    ELSE [raised |-> "KeyError", path |-> <<>>]

RECURSIVE ExtendFrom(_, _, _)
ExtendFrom(route, paths, k) ==
    IF k >= Len(route) THEN <<>>
    ELSE path_part(paths, route[k], route[k + 1]).path \o ExtendFrom(route, paths, k + 1)

\* _route_to_path: path.extend(path_part) for every two consecutive stops of
\* the route
route_to_path(route, paths) ==
    IF route = <<>> THEN [raised |-> "IndexError", path |-> <<>>]
    ELSE IF \E k \in 1..(Len(route) - 1) :
                path_part(paths, route[k], route[k + 1]).raised # "none"
    THEN [raised |-> "KeyError", path |-> <<>>]
    ELSE [raised |-> "none", path |-> ExtendFrom(route, paths, 1)]

(* ------------------------------ get_path ------------------------------ *)

\* what a call of get_path leaves behind: the exception that left it, whether it
\* returned, the pair (path, rolled_route) it returned, and what it did on the
\* way: the number of path searches, the problem given to the optimizer (length
\* 0 when the optimizer was not called), the dummy node and the element
\* _map_to_selected_product_id_indices took out of the tour
Outcome(raised, returned, path, route, searches, problem, dummy_id, stripped) ==
    [raised |-> raised, returned |-> returned, path |-> path, route |-> route,
     searches |-> searches, problem |-> problem, dummy_id |-> dummy_id,
     stripped |-> stripped]

NoProblem == [dist_list |-> <<>>, length |-> 0]

Raise(exception, searches, problem, dummy_id, stripped) ==
    Outcome(exception, FALSE, <<>>, <<>>, searches, problem, dummy_id, stripped)

\* get_path has ended before the optimizer was called
Ended(outcome) ==
    [done |-> TRUE, outcome |-> outcome, selected |-> <<>>, end_idx |-> -1,
     paths |-> EmptyDict, problem |-> NoProblem, dummy_id |-> -1,
     searches |-> outcome.searches]

\* get_path from the line after its assert to the call of the optimizer in
\* _do_tsp
get_path_after_assert(self, user_loc, selected_product_ids, end_at_id) ==
    LET end_idx  == IndexOf(selected_product_ids, end_at_id)
        selected == IF ~In(self.user_position_id, selected_product_ids)
                    THEN <<self.user_position_id>> \o selected_product_ids
                    ELSE selected_product_ids
        user     == calculate_user_product_routes(self, user_loc)
        filtered == filter_dists(selected, user.dists)
        dummy    == insert_dummy_node(self, filtered, end_idx)
        problem  == do_tsp_problem(dummy.dists)
    IN  IF self.num_products = 0
        THEN Ended(Outcome("none", TRUE, <<>>, <<>>, 0, NoProblem, -1, -1))
        ELSE IF self.user_position_id = UNSET
        THEN Ended(Raise("AttributeError", 0, NoProblem, -1, -1))
        ELSE IF user.raised # "none"
        THEN Ended(Raise(user.raised, user.searches, NoProblem, -1, -1))
        ELSE IF dummy.raised # "none"
        THEN Ended(Raise(dummy.raised, user.searches, NoProblem, -1, -1))
        ELSE [done |-> FALSE, outcome |-> Raise("none", 0, NoProblem, -1, -1),
              selected |-> selected, end_idx |-> end_idx, paths |-> user.paths,
              problem |-> problem, dummy_id |-> dummy.dummy_id,
              searches |-> user.searches]

\* a get_path that tests for the empty registry before its assert
get_path_empty_registry_first(self, user_loc, selected_product_ids, end_at_id) ==
    IF self.num_products = 0
    THEN Ended(Outcome("none", TRUE, <<>>, <<>>, 0, NoProblem, -1, -1))
    ELSE IF ~In(end_at_id, selected_product_ids)
    THEN Ended(Raise("AssertionError", 0, NoProblem, -1, -1))
    ELSE get_path_after_assert(self, user_loc, selected_product_ids, end_at_id)

\* get_path from its first line to the call of the optimizer in _do_tsp.
\* `done` says that the call has ended before the optimizer (in `outcome`);
\* otherwise `problem` is what the optimizer is given.
get_path_to_tsp(self, user_loc, selected_product_ids, end_at_id) ==
    IF ~In(end_at_id, selected_product_ids)
    THEN Ended(Raise("AssertionError", 0, NoProblem, -1, -1))
    ELSE get_path_after_assert(self, user_loc, selected_product_ids, end_at_id)

\* get_path(user_loc, selected_product_ids, end_at_id) on the planner self,
\* with best_state the answer of the optimizer when it is called
get_path(self, user_loc, selected_product_ids, end_at_id, best_state) ==
    LET pre    == get_path_to_tsp(self, user_loc, selected_product_ids, end_at_id)
        mapped == map_to_selected_product_id_indices(self, pre.selected, best_state)
        rolled == roll_route(0, pre.end_idx, mapped.route)
        path   == route_to_path(rolled.route, pre.paths)
    IN  IF pre.done THEN pre.outcome
        ELSE IF best_state = TspFailed
        THEN Raise("Exception", pre.searches, pre.problem, pre.dummy_id, -1)
        ELSE IF mapped.raised # "none"
        THEN Raise(mapped.raised, pre.searches, pre.problem, pre.dummy_id, mapped.stripped)
        ELSE IF rolled.raised # "none"
        THEN Raise(rolled.raised, pre.searches, pre.problem, pre.dummy_id, mapped.stripped)
        ELSE IF path.raised # "none"
        THEN Raise(path.raised, pre.searches, pre.problem, pre.dummy_id, mapped.stripped)
        ELSE Outcome("none", TRUE, path.path, rolled.route, pre.searches, pre.problem,
                     pre.dummy_id, mapped.stripped)

(* ------------------------------- state -------------------------------- *)

VARIABLES
    file,        \* the cache file /tmp/path_cache.pickle
    file0,       \* the cache file before the first constructor call
    planners,    \* the Pathplanner objects built so far, oldest first
    ctors,       \* one record for every constructor call so far, oldest first
    query,       \* the last get_path call on the newest planner and its outcome
    call,        \* the arguments and the result of a helper called on its own
    procs        \* the processes that run the constructor at the same time

vars == <<file, file0, planners, ctors, query, call, procs>>

NoQuery == [called |-> FALSE]

NoCall == [fn |-> "none"]

\* the entry the constructor stores for a registry
EntryOf(locations) ==
    LET calc == calculate_inter_product_routes(locations)
    IN  [product_distances |-> calc.inter_product_distances,
         product_paths |-> calc.inter_product_paths]

\* the registries whose tables can be computed
Computable == {r \in Registries : calculate_inter_product_routes(r).raised = "none"}

\* The cache files a run can find: none, one of length 0, one cut short, one
\* that is no pickle, the pickle of an empty dict, and pickles that earlier
\* runs have left for one registry
InitFiles ==
    {File(k, EmptyDict) : k \in FileKinds}
        \cup {File("pickle", DictSet(EmptyDict, get_hash_of_locations(r), EntryOf(r))) :
                 r \in {SubSeq(BaseAlt, 1, n) : n \in 0..1}}

\* the arguments of get_path: lists of distinct stop ids (none, one, two in
\* both orders), an end id, and a position on the map
SelectedLists == {<<>>, <<1>>, <<1, 2>>, <<2, 1>>}

EndIds == {1, 2}

UserLocs == {<<0, 1>>}

Init ==
    /\ file \in InitFiles
    /\ file0 = file
    /\ planners = <<>>
    /\ ctors = <<>>
    /\ query = NoQuery
    /\ call = NoCall
    /\ procs = <<>>

\* a process runs Pathplanner(map_image_path, locations) from start to end
Construct(locations) ==
    LET made == Pathplanner(file, locations)
    IN  /\ Len(ctors) < MaxCtor
        /\ file' = made.file
        /\ ctors' = Append(ctors, [locations |-> locations,
                                   locations_hash |-> made.locations_hash,
                                   raised |-> made.raised, hit |-> made.hit,
                                   calculated |-> made.calculated,
                                   searches |-> made.searches,
                                   found |-> file.kind])
        /\ planners' = IF made.raised = "none" THEN Append(planners, made.self) ELSE planners
        /\ query' = NoQuery
        /\ UNCHANGED <<file0, call, procs>>

\* pathplanner.get_path(user_loc, selected_product_ids, end_at_id) on the
\* newest planner
GetPath(user_loc, selected_product_ids, end_at_id) ==
    /\ planners # <<>>
    /\ LET self == Last(planners)
           pre  == get_path_to_tsp(self, user_loc, selected_product_ids, end_at_id)
       IN  \E best_state \in (IF pre.done THEN {TspFailed} ELSE TspAnswers(pre.problem.length)) :
               query' = [called |-> TRUE, user_loc |-> user_loc,
                         selected_product_ids |-> selected_product_ids,
                         end_at_id |-> end_at_id, best_state |-> best_state,
                         outcome |-> get_path(self, user_loc, selected_product_ids,
                                              end_at_id, best_state)]
    /\ UNCHANGED <<file, file0, planners, ctors, call, procs>>

Next ==
    \/ \E locations \in Registries : Construct(locations)
    \/ \E user_loc \in UserLocs, selected_product_ids \in SelectedLists,
          end_at_id \in EndIds :
           GetPath(user_loc, selected_product_ids, end_at_id)

Spec == Init /\ [][Next]_vars

(* -------------------- the helpers called on their own ----------------- *)

\* The helpers of get_path read self.user_position_id, which the class assigns
\* nowhere.  Here they are given a planner as the constructor builds it with
\* the index 0 added: the node get_path itself names as the start of the route
\* (start_id=0 in its call of _roll_route).
PlannerWithUserIndex(locations) ==
    [Pathplanner(File("missing", EmptyDict), locations).self
         EXCEPT !.user_position_id = 0]

HelperUserLocs == {<<0, 1>>, <<1, 1>>}

\* the tables get_path hands to _route_to_path: those of the planner with the
\* edges and segments from user_loc added under node 0
TablesWithUser(locations, user_loc) ==
    calculate_user_product_routes(PlannerWithUserIndex(locations), user_loc)

\* the routes: lists of distinct nodes of 0..n, of length 1..n+1
Routes(n) ==
    UNION {{r \in [1..len -> 0..n] : \A i, j \in 1..len : i # j => r[i] # r[j]} :
              len \in 1..(n + 1)}

\* the registries whose stops are all on the map and at different places
OnMap == {r \in Computable : r # <<>> /\ \A k \in DOMAIN r : ~OutOfBounds(r[k])}

\* the lists of distinct ids of the stops 1..n, of length 1..n
StopLists(n) ==
    UNION {{r \in [1..len -> 1..n] : \A i, j \in 1..len : i # j => r[i] # r[j]} :
              len \in 1..n}

RouteArgs ==
    {[fn |-> "args", locations |-> locations, user_loc |-> user_loc,
      paths |-> TablesWithUser(locations, user_loc).paths, route |-> route] :
        locations \in OnMap, user_loc \in HelperUserLocs, route \in Routes(MaxStops)}

QueryArgs ==
    {[fn |-> "query", locations |-> locations, user_loc |-> user_loc,
      selected_product_ids |-> selected, end_at_id |-> end_at_id] :
        locations \in {SubSeq(BaseGood, 1, n) : n \in 1..MaxStops},
        user_loc \in UserLocs,
        selected \in StopLists(MaxStops), end_at_id \in 1..MaxStops}

\* the arguments of _roll_route: a route of distinct nodes and two node ids
RollArgs ==
    {[fn |-> "roll_args", route |-> route, start_id |-> start_id, end_id |-> end_id] :
        route \in Routes(MaxStops), start_id \in 0..MaxStops, end_id \in 0..MaxStops}

InitAssemble ==
    /\ file = File("missing", EmptyDict)
    /\ file0 = file
    /\ planners = <<>>
    /\ ctors = <<>>
    /\ query = NoQuery
    /\ procs = <<>>
    /\ call \in {c \in RouteArgs : Range(c.route) \subseteq 0..Len(c.locations)}
           \cup {c \in QueryArgs :
                    /\ Range(c.selected_product_ids) \subseteq 1..Len(c.locations)
                    /\ In(c.end_at_id, c.selected_product_ids)}
           \cup RollArgs

\* _roll_route(start_id, end_id, route) on the arguments drawn
RollRoute ==
    /\ call.fn = "roll_args"
    /\ call' = [call EXCEPT !.fn = "roll_route"] @@
               [result |-> roll_route(call.start_id, call.end_id, call.route)]
    /\ UNCHANGED <<file, file0, planners, ctors, query, procs>>

\* _route_to_path(route, paths) on the arguments drawn
RouteToPath ==
    /\ call.fn = "args"
    /\ call' = [call EXCEPT !.fn = "route_to_path"] @@
               [result |-> route_to_path(call.route, call.paths)]
    /\ UNCHANGED <<file, file0, planners, ctors, query, procs>>

\* the lines of get_path after the read of self.user_position_id, on a planner
\* that holds the index 0, for any answer of the optimizer
PlanWithUserIndex ==
    /\ call.fn = "query"
    /\ LET self == PlannerWithUserIndex(call.locations)
           pre  == get_path_to_tsp(self, call.user_loc, call.selected_product_ids,
                                   call.end_at_id)
       IN  \E best_state \in (IF pre.done THEN {TspFailed}
                              ELSE TspAnswers(pre.problem.length)) :
               call' = [call EXCEPT !.fn = "get_path"] @@
                       [best_state |-> best_state,
                        outcome |-> get_path(self, call.user_loc, call.selected_product_ids,
                                             call.end_at_id, best_state)]
    /\ UNCHANGED <<file, file0, planners, ctors, query, procs>>

NextAssemble == RouteToPath \/ PlanWithUserIndex \/ RollRoute

SpecAssemble == InitAssemble /\ [][NextAssemble]_vars

(* ------------------ constructors running at the same time ------------- *)

\* the processes that construct a Pathplanner on the same cache file
Procs == {1, 2}

\* the registries they construct it for
ConcRegistries ==
    {SubSeq(BaseGood, 1, 1), SubSeq(BaseGood, 1, 2), SubSeq(BaseAlt, 1, 2), OutSecond}

\* A process at the start of __init__.  pc is the next step of __init__ it
\* takes; pending is the dict _store_distance_and_paths holds between its read
\* and its dump, as the file the dump leaves; before is the file as it was
\* just before this process opened it for writing; stale says that another
\* process wrote the file after this process read it for its store.
AtStart(locations) ==
    [pc |-> "load", locations |-> locations,
     locations_hash |-> get_hash_of_locations(locations),
     raised |-> "none", hit |-> FALSE, stored |-> FALSE, stale |-> FALSE,
     pending |-> File("missing", EmptyDict), before |-> File("missing", EmptyDict)]

InitConc ==
    /\ file \in InitFiles
    /\ file0 = file
    /\ planners = <<>>
    /\ ctors = <<>>
    /\ query = NoQuery
    /\ call = NoCall
    /\ procs \in [Procs -> {AtStart(locations) : locations \in ConcRegistries}]

\* a write of the file by p: every other process between its read and its
\* dump now holds a dict read from an older file
OthersStale(p) ==
    [q \in Procs |-> IF q # p /\ procs[q].pc \in {"store_open", "store_dump"}
                     THEN [procs[q] EXCEPT !.stale = TRUE] ELSE procs[q]]

\* `if not self._load_distance_and_paths()` of process p
Load(p) ==
    /\ procs[p].pc = "load"
    /\ LET loaded == load_distance_and_paths(file, procs[p].locations_hash)
       IN  procs' = [procs EXCEPT ![p] =
               IF loaded.raised # "none"
               THEN [@ EXCEPT !.pc = "failed", !.raised = loaded.raised]
               ELSE IF loaded.ok THEN [@ EXCEPT !.pc = "done", !.hit = TRUE]
               ELSE [@ EXCEPT !.pc = "calculate"]]
    /\ UNCHANGED <<file, file0, planners, ctors, query, call>>

\* `self._calculate_inter_product_routes()` of process p
Calculate(p) ==
    /\ procs[p].pc = "calculate"
    /\ LET calc == calculate_inter_product_routes(procs[p].locations)
       IN  procs' = [procs EXCEPT ![p] =
               IF calc.raised # "none"
               THEN [@ EXCEPT !.pc = "failed", !.raised = calc.raised]
               ELSE [@ EXCEPT !.pc = "store_read"]]
    /\ UNCHANGED <<file, file0, planners, ctors, query, call>>

\* _store_distance_and_paths of process p up to `data[self.locations_hash] =`:
\* the file is read and the entry is put into the dict read
StoreRead(p) ==
    /\ procs[p].pc = "store_read"
    /\ LET entry  == EntryOf(procs[p].locations)
           stored == store_distance_and_paths(file, procs[p].locations_hash,
                         entry.product_distances, entry.product_paths)
       IN  procs' = [procs EXCEPT ![p] =
               IF stored.raised # "none"
               THEN [@ EXCEPT !.pc = "failed", !.raised = stored.raised]
               ELSE [@ EXCEPT !.pc = "store_open", !.pending = stored.file,
                              !.stale = FALSE]]
    /\ UNCHANGED <<file, file0, planners, ctors, query, call>>

\* `open(self.cache_path, 'wb')` of process p: the file is cut to length 0
StoreOpen(p) ==
    /\ procs[p].pc = "store_open"
    /\ file' = File("empty", EmptyDict)
    /\ procs' = [OthersStale(p) EXCEPT ![p] =
                    [@ EXCEPT !.pc = "store_dump", !.before = file]]
    /\ UNCHANGED <<file0, planners, ctors, query, call>>

\* `pickle.dump(data, f)` of process p and the end of the `with`
StoreDump(p) ==
    /\ procs[p].pc = "store_dump"
    /\ file' = procs[p].pending
    /\ procs' = [OthersStale(p) EXCEPT ![p] = [@ EXCEPT !.pc = "done", !.stored = TRUE]]
    /\ UNCHANGED <<file0, planners, ctors, query, call>>

NextConc ==
    \E p \in Procs :
        \/ Load(p)
        \/ Calculate(p)
        \/ StoreRead(p)
        \/ StoreOpen(p)
        \/ StoreDump(p)

SpecConc == InitConc /\ [][NextConc]_vars

\* What PlanWithUserIndex shows of get_path once the index is 0.
\* The dummy node is tied to node 0 and to the node numbered by the place the
\* end id has in the list before node 0 is put in front of it: node 0 itself
\* when the end id is listed first, else the stop listed one place before it.
DummyTiedToPlaceOfEndInCallersList ==
    (call.fn = "get_path" /\ call.outcome.problem.length > 0) =>
        LET dists    == call.outcome.problem.dist_list
            dummy_id == call.outcome.dummy_id
            place    == IndexOf(call.selected_product_ids, call.end_at_id)
        IN  /\ dummy_id = Len(call.selected_product_ids) + 1
            /\ {<<dists[k][1], dists[k][2]>> : k \in {j \in DOMAIN dists :
                    dummy_id \in {dists[j][1], dists[j][2]}}}
                   = {<<0, dummy_id>>, <<dummy_id, place>>}

\* The element taken out of the tour is the dummy node, and a returned route
\* holds node 0 and every selected stop once.
DummyStrippedWithUserIndex ==
    (call.fn = "get_path" /\ call.outcome.returned) =>
        /\ call.outcome.stripped = call.outcome.dummy_id
        /\ Len(call.outcome.route) = Len(call.selected_product_ids) + 1
        /\ Range(call.outcome.route) = {0} \cup Range(call.selected_product_ids)

\* the tour uses only edges of the problem (its cost is finite)
FeasibleTour(best_state, problem) ==
    \A i \in 1..problem.length :
        LET a == best_state[i]
            b == best_state[(i % problem.length) + 1]
        IN  \E k \in DOMAIN problem.dist_list :
                {problem.dist_list[k][1], problem.dist_list[k][2]} = {a, b}

\* A returned route starts at node 0.
RouteStartsAtUserWithUserIndex ==
    (call.fn = "get_path" /\ call.outcome.returned) => Head(call.outcome.route) = 0

\* When the end id is listed first both edges of the dummy node go to node 0,
\* and no tour is feasible.
NoFeasibleTourWhenEndListedFirst ==
    (call.fn = "get_path" /\ call.best_state # TspFailed
         /\ FeasibleTour(call.best_state, call.outcome.problem)) =>
        IndexOf(call.selected_product_ids, call.end_at_id) >= 1

(* ------------------------------- claims ------------------------------- *)

\* the newest planner (the one get_path is called on)
pathplanner == Last(planners)

\* the last get_path call had a non-empty list of distinct registered stop ids
\* holding the end id, on a registry that is not empty
ValidQuery ==
    /\ query.called
    /\ query.selected_product_ids # <<>>
    /\ Range(query.selected_product_ids) \subseteq 1..pathplanner.num_products
    /\ In(query.end_at_id, query.selected_product_ids)

\* the table entry a planner holds
TablesOf(self) ==
    [product_distances |-> self.inter_product_distances,
     product_paths |-> self.inter_product_paths]

\* C1 (as claimed): every valid query returns a visit order that starts with
\* the current-position node 0 and ends with the mandatory end id.
C1_VisitOrderStartsAtUserEndsAtEnd ==
    ValidQuery =>
        /\ query.outcome.returned
        /\ query.outcome.route # <<>>
        /\ Head(query.outcome.route) = 0
        /\ Last(query.outcome.route) = query.end_at_id

\* C2 (as claimed): every valid query returns a visit order that holds every
\* requested stop exactly once and not the dummy node, the element taken out of
\* the tour being the dummy node.
C2_EveryStopOnceNoDummy ==
    ValidQuery =>
        /\ query.outcome.returned
        /\ \A id \in Range(query.selected_product_ids) :
               Cardinality({k \in DOMAIN query.outcome.route :
                               query.outcome.route[k] = id}) = 1
        /\ query.outcome.stripped = query.outcome.dummy_id
        /\ Len(query.outcome.route) = Len(query.selected_product_ids) + 1

\* the coordinate of a node of the call: user_loc for node 0, else the stop's
CoordOf(node) == IF node = 0 THEN call.user_loc ELSE call.locations[node]

\* the number of coordinates of the segment between two nodes of the call
SegmentLen(a, b) == route_through_array(CoordOf(a), CoordOf(b)).cost + 1

\* the number of coordinates of the segments before the k-th pair of the route
RECURSIVE OffsetOf(_)
OffsetOf(k) ==
    IF k <= 1 THEN 0
    ELSE OffsetOf(k - 1) + SegmentLen(call.route[k - 1], call.route[k])

Adjacent(c, d) == c # d /\ Abs(c[1] - d[1]) <= 1 /\ Abs(c[2] - d[2]) <= 1

\* the segments of the route joined with the first coordinate of every segment
\* but the first left out
RECURSIVE JoinedWithoutJunctions(_)
JoinedWithoutJunctions(k) ==
    IF k >= Len(call.route) THEN <<>>
    ELSE LET part == path_part(call.paths, call.route[k], call.route[k + 1]).path
         IN  (IF k = 1 THEN part ELSE Tail(part)) \o JoinedWithoutJunctions(k + 1)

\* C3 (as claimed): the path of a route is its segments joined with the
\* repeated coordinate of every junction removed.
C3_JunctionCoordinateRemoved ==
    call.fn = "route_to_path" =>
        /\ call.result.raised = "none"
        /\ call.result.path = JoinedWithoutJunctions(1)

\* C3 (amended): the path of a route is its segments one after the other with
\* nothing removed: the k-th segment takes its own places of the path, runs
\* from the coordinate of the k-th stop to that of the next through adjacent
\* cells, and so at every junction the coordinate of the stop in between
\* stands twice in a row.
C3_SegmentsJoinedJunctionTwice ==
    call.fn = "route_to_path" =>
        LET path == call.result.path
            n    == Len(call.route)
        IN  /\ call.result.raised = "none"
            /\ Len(path) = OffsetOf(n)
            /\ \A k \in 1..(n - 1) :
                   LET from == OffsetOf(k) + 1
                       to   == OffsetOf(k + 1)
                   IN  /\ path[from] = CoordOf(call.route[k])
                       /\ path[to] = CoordOf(call.route[k + 1])
                       /\ \A i \in from..(to - 1) : Adjacent(path[i], path[i + 1])
            /\ \A k \in 2..(n - 1) :
                   /\ path[OffsetOf(k)] = CoordOf(call.route[k])
                   /\ path[OffsetOf(k) + 1] = CoordOf(call.route[k])

C3_Witness ==
    /\ call.fn = "route_to_path"
    /\ Len(call.route) >= 3
    /\ call.route[1] = 0
    /\ call.route[2] > call.route[3]
    /\ call.result.raised = "none"
    /\ Len(call.result.path) > Len(JoinedWithoutJunctions(1))

\* C4 (as claimed): whatever the cache file is, no constructor call ends with
\* an exception of the cache read; a call that finds no entry recomputes, and a
\* call that succeeds leaves a pickle holding an entry for its key.
C4_CacheReadNeverFatal ==
    \A k \in DOMAIN ctors :
        /\ ctors[k].raised \notin {"UnpicklingError", "EOFError", "FileNotFoundError"}
        /\ ctors[k].found # "pickle" => ctors[k].calculated
        /\ (k = Len(ctors) /\ ctors[k].raised = "none") =>
               /\ file.kind = "pickle"
               /\ ctors[k].locations_hash \in DOMAIN file.data

\* C5: starting from a missing or empty cache file, of the constructor calls
\* for one stop list that succeed, the first recomputes and stores and every
\* later one loads without recomputing and without a path search, so the
\* recomputation count of the list is 1; planners of the same list hold the
\* same edges and segments.
C5_SecondConstructionHitsCache ==
    file0.kind \in {"missing", "empty"} =>
        /\ \A j \in DOMAIN ctors :
               ctors[j].raised = "none" =>
                   IF \E i \in 1..(j - 1) : /\ ctors[i].locations = ctors[j].locations
                                             /\ ctors[i].raised = "none"
                   THEN ctors[j].hit /\ ~ctors[j].calculated /\ ctors[j].searches = <<>>
                   ELSE ~ctors[j].hit /\ ctors[j].calculated
        /\ \A j \in DOMAIN ctors :
               ctors[j].raised = "none" =>
                   Cardinality({i \in DOMAIN ctors :
                                   /\ ctors[i].locations = ctors[j].locations
                                   /\ ctors[i].calculated}) = 1
        /\ \A p, r \in DOMAIN planners :
               planners[p].product_locations = planners[r].product_locations =>
                   TablesOf(planners[p]) = TablesOf(planners[r])

C5_Witness ==
    /\ file0.kind \in {"missing", "empty"}
    /\ Len(ctors) >= 2
    /\ ctors[1].locations = ctors[2].locations
    /\ Len(ctors[1].locations) >= 2
    /\ ctors[1].raised = "none" /\ ctors[1].calculated
    /\ ctors[2].raised = "none" /\ ctors[2].hit
    /\ Len(planners) >= 2

\* C6: a constructor call leaves every entry of a readable cache file as it
\* was, and the file holds the entry of every planner built so far.
C6_OtherEntriesKept ==
    /\ [](\A p \in DOMAIN planners :
              /\ file.kind = "pickle"
              /\ planners[p].locations_hash \in DOMAIN file.data
              /\ file.data[planners[p].locations_hash] = TablesOf(planners[p]))
    /\ [][file.kind = "pickle" =>
              /\ file'.kind = "pickle"
              /\ \A key \in DOMAIN file.data :
                     key \in DOMAIN file'.data /\ file'.data[key] = file.data[key]]_vars

C6_Witness ==
    /\ file0.kind = "pickle" /\ DOMAIN file0.data # {}
    /\ Len(planners) >= 2
    /\ planners[1].locations_hash # planners[2].locations_hash
    /\ ctors[1].calculated /\ ctors[2].calculated
    /\ Cardinality(DOMAIN file.data) >= 3

\* C7: a get_path call whose end id is not in the list of selected ids (the
\* empty list included, the registry empty or not) raises and returns nothing,
\* before any path search and before the optimizer is called.
C7_EndNotSelectedFails ==
    (query.called /\ ~In(query.end_at_id, query.selected_product_ids)) =>
        /\ query.outcome.raised # "none"
        /\ ~query.outcome.returned
        /\ query.outcome.path = <<>> /\ query.outcome.route = <<>>
        /\ query.outcome.searches = 0
        /\ query.outcome.problem.length = 0

C7_Witness ==
    /\ query.called
    /\ query.selected_product_ids = <<>>
    /\ pathplanner.num_products = 0
    /\ query.outcome.raised = "AssertionError"

\* C8 (as claimed): with an empty registry the constructor succeeds and every
\* get_path call returns ([], []) without a path search or an optimizer call.
C8_EmptyRegistryReturnsEmpty ==
    /\ \A k \in DOMAIN ctors : ctors[k].locations = <<>> => ctors[k].raised = "none"
    /\ (query.called /\ pathplanner.num_products = 0) =>
           /\ query.outcome.returned
           /\ query.outcome.path = <<>> /\ query.outcome.route = <<>>
           /\ query.outcome.searches = 0
           /\ query.outcome.problem.length = 0

\* C9 (as claimed): every planner the constructor has built holds the
\* current-position index 0.
C9_UserPositionIdIsZero ==
    \A p \in DOMAIN planners : planners[p].user_position_id = 0

\* C10 (as claimed): for every valid query the optimizer is given a graph with
\* one dummy node, numbered one above the largest other node, that has exactly
\* two edges, of cost 1, one to the current-position node 0 and one to the node
\* of the end id, these two being different nodes.
C10_DummyBetweenUserAndEnd ==
    ValidQuery =>
        LET problem  == query.outcome.problem
            dummy_id == query.outcome.dummy_id
            end_node == IndexOf(query.selected_product_ids, query.end_at_id) + 1
            edges    == {k \in DOMAIN problem.dist_list :
                            dummy_id \in {problem.dist_list[k][1], problem.dist_list[k][2]}}
            others   == {problem.dist_list[k][1] : k \in edges}
                            \cup {problem.dist_list[k][2] : k \in edges}
        IN  /\ problem.length = Len(query.selected_product_ids) + 2
            /\ dummy_id = Len(query.selected_product_ids) + 1
            /\ Cardinality(edges) = 2
            /\ \A k \in edges : problem.dist_list[k][3] = 1
            /\ others = {0, end_node, dummy_id}

\* b follows a, or a follows b, around the cycle route
CyclicallyAdjacent(route, a, b) ==
    \E i \in DOMAIN route :
        LET j == (i % Len(route)) + 1
        IN  {route[i], route[j]} = {a, b} /\ i # j

\* C11: for a cycle of at least two distinct nodes that holds start_id and
\* end_id next to each other, _roll_route gives a list that starts with
\* start_id, ends with end_id, holds the nodes of the cycle once each, and
\* goes around the cycle in one of its two directions.
C11_RolledFromStartToEnd ==
    (/\ call.fn = "roll_route"
     /\ Len(call.route) >= 2
     /\ call.start_id # call.end_id
     /\ In(call.start_id, call.route) /\ In(call.end_id, call.route)
     /\ CyclicallyAdjacent(call.route, call.start_id, call.end_id)) =>
        LET rolled == call.result.route
        IN  /\ call.result.raised = "none"
            /\ Len(rolled) = Len(call.route)
            /\ Range(rolled) = Range(call.route)
            /\ rolled[1] = call.start_id
            /\ rolled[Len(rolled)] = call.end_id
            /\ \A k \in 1..(Len(rolled) - 1) :
                   CyclicallyAdjacent(call.route, rolled[k], rolled[k + 1])
            /\ \/ \A k \in 1..Len(rolled) :
                      rolled[k] = Roll(call.route, IndexOf(call.route, call.start_id))[k]
               \/ \A k \in 1..Len(rolled) :
                      rolled[k] = Roll(Reverse(call.route),
                                       IndexOf(Reverse(call.route), call.start_id))[k]

\* the case of the reversal: end_id follows start_id in a cycle of three or more
C11_Witness ==
    /\ call.fn = "roll_route"
    /\ Len(call.route) >= 3
    /\ call.route[1] # call.start_id
    /\ In(call.start_id, call.route)
    /\ Roll(call.route, IndexOf(call.route, call.start_id))[2] = call.end_id
    /\ call.result.raised = "none"
    /\ call.result.route[Len(call.route)] = call.end_id

\* the pairs (i, j) with 1 <= i < j <= n
UnorderedPairs(n) == {pr \in (1..n) \X (1..n) : pr[1] < pr[2]}

\* the edge list and the segment table are those of the all-pairs
\* precomputation over the stops of locations
AllPairsTables(locations, distances, paths) ==
    LET n == Len(locations)
    IN  /\ {<<d[1], d[2]>> : d \in Range(distances)} = UnorderedPairs(n)
        /\ Len(distances) = Cardinality(UnorderedPairs(n))
        /\ \A d \in Range(distances) : d[1] # 0 /\ d[2] # 0
        /\ DOMAIN paths = 1..(n - 1)
        /\ \A i \in DOMAIN paths :
               /\ DOMAIN paths[i] = (i + 1)..n
               /\ \A j \in DOMAIN paths[i] :
                      /\ paths[i][j][1] = locations[i]
                      /\ Last(paths[i][j]) = locations[j]

\* C12: a precomputation that succeeds for N stops runs the path search once
\* for each pair i < j and for nothing else; the edges and the segments it
\* gives, and those kept in the cache file, are exactly those of the pairs
\* 1 <= i < j <= N, each segment going from stop i to stop j, and node 0 is an
\* endpoint of none of them.
C12_AllPairsOnceOneBased ==
    /\ \A k \in DOMAIN ctors :
           (ctors[k].calculated /\ ctors[k].raised = "none") =>
               /\ Range(ctors[k].searches) = UnorderedPairs(Len(ctors[k].locations))
               /\ Len(ctors[k].searches) = Cardinality(UnorderedPairs(Len(ctors[k].locations)))
    /\ \A k \in DOMAIN planners :
           AllPairsTables(planners[k].product_locations,
                          planners[k].inter_product_distances,
                          planners[k].inter_product_paths)
    /\ file.kind = "pickle" =>
           \A key \in DOMAIN file.data : \A locations \in Registries :
               get_hash_of_locations(locations) = key =>
                   AllPairsTables(locations, file.data[key].product_distances,
                                  file.data[key].product_paths)

\* three stops precomputed, kept in the object and in the cache file
C12_Witness ==
    \E k \in DOMAIN ctors :
        /\ ctors[k].calculated /\ ctors[k].raised = "none"
        /\ Len(ctors[k].locations) = 3
        /\ Len(ctors[k].searches) = 3
        /\ file.kind = "pickle"
        /\ ctors[k].locations_hash \in DOMAIN file.data
        /\ Len(file.data[ctors[k].locations_hash].product_distances) = 3
        /\ \E m \in DOMAIN planners :
               /\ planners[m].product_locations = ctors[k].locations
               /\ Len(planners[m].inter_product_distances) = 3

\* the cache file f holds the entry that process p stores
HoldsEntryOf(f, p) ==
    /\ f.kind = "pickle"
    /\ procs[p].locations_hash \in DOMAIN f.data
    /\ f.data[procs[p].locations_hash] = EntryOf(procs[p].locations)

\* the cache file g holds every entry that the cache file f holds
KeepsEntries(f, g) ==
    (f.kind = "pickle") =>
        /\ g.kind = "pickle"
        /\ \A key \in DOMAIN f.data : key \in DOMAIN g.data /\ g.data[key] = f.data[key]

\* C13: the store reads the whole file, adds its entry and rewrites the whole
\* file, with no lock.  A write that no other process's write falls into
\* loses nothing: the file it leaves holds every entry of the file it opened,
\* and its own; and when no write is under way, an entry that a process has
\* stored is missing from the file only if a process has written a dict that
\* it had read before another process's write.
C13_LostOnlyWhenWritesOverlap ==
    /\ [](\A p \in DOMAIN procs :
             (/\ procs[p].stored
              /\ \A q \in DOMAIN procs : procs[q].pc # "store_dump"
              /\ ~HoldsEntryOf(file, p)) =>
                 \E q \in DOMAIN procs \ {p} : procs[q].stored /\ procs[q].stale)
    /\ [][\A p \in DOMAIN procs :
             (procs[p].pc = "store_dump" /\ procs'[p].pc = "done" /\ ~procs[p].stale) =>
                 /\ KeepsEntries(procs[p].before, file')
                 /\ file'.kind = "pickle"
                 /\ procs[p].locations_hash \in DOMAIN file'.data
                 /\ file'.data[procs[p].locations_hash] = EntryOf(procs[p].locations)]_vars

\* the lost update: both processes have stored, for two registries, and the
\* file holds the entry of one of them only
C13_Witness ==
    /\ DOMAIN procs = Procs
    /\ \A p \in Procs : procs[p].pc = "done" /\ procs[p].stored
    /\ procs[1].locations_hash # procs[2].locations_hash
    /\ file.kind = "pickle"
    /\ \E p \in Procs : ~HoldsEntryOf(file, p)

\* a write alone: one process has stored next to an entry the file held, and
\* the other has not reached its store
C13_WitnessAlone ==
    /\ DOMAIN procs = Procs
    /\ \E p \in Procs :
           /\ procs[p].stored /\ ~procs[p].stale
           /\ procs[p].before.kind = "pickle"
           /\ DOMAIN procs[p].before.data # {}
           /\ procs[p].locations_hash \notin DOMAIN procs[p].before.data
           /\ KeepsEntries(procs[p].before, file)
           /\ HoldsEntryOf(file, p)
           /\ \A q \in Procs \ {p} : ~procs[q].stored /\ procs[q].pc \in {"load", "calculate", "store_read"}

\* every stop of locations is on the map
AllInBounds(locations) == \A k \in DOMAIN locations : ~OutOfBounds(locations[k])

\* C14: for a registry of one stop or more, on any cache file, the
\* constructor completes only if every stop is on the map, and with a stop off
\* the map it fails with the out-of-bounds error.
C14_OutOfBoundsStopFailsConstruction ==
    \A k \in DOMAIN ctors :
        Len(ctors[k].locations) >= 1 =>
            /\ ctors[k].raised = "none" => AllInBounds(ctors[k].locations)
            /\ ~AllInBounds(ctors[k].locations) => ctors[k].raised = "ValueError"

====
